---- MODULE Spec2Model ----
(***************************************************************************)
(* Model of the standalone WebSocket matchmaking / signaling server        *)
(* (server.js): the users map, the waitingUsers set, the per-connection    *)
(* handlers and the liveness sweep.                                        *)
(*                                                                         *)
(* Every handler runs to completion on the single-threaded event loop, so  *)
(* each handler is one atomic action.  The functions of the source are     *)
(* operators from a server state record to a server state record; the      *)
(* actions apply them to the variables.                                    *)
(*                                                                         *)
(* Environment: a connection is created OPEN, may start closing (peer or   *)
(* network), and ends CLOSED when its 'close' event is delivered; an       *)
(* 'error' event may precede the 'close' event.  Inbound 'message' and     *)
(* 'pong' events are handled for OPEN connections.                         *)
(*                                                                         *)
(* Observation: while ev.kind # "idle" the variables hold the state right  *)
(* after a handler ran, ev names the event it handled, pre is the server   *)
(* state the handler started from and sent lists, in order, the messages   *)
(* it pushed onto sockets.  Return gives control back to the event loop    *)
(* and clears the three; the server state itself is not touched by it.     *)
(***************************************************************************)
EXTENDS Integers, Sequences, FiniteSets, TLC

\* ---------------------------------------------------------------- bounds
NumIds == 3
NumConns == 3
\* how many inbound messages of a run may name an id other than the sender's
MaxForeign == 1
\* how many times the clock advances; each advance is one ClockStep
MaxTicks == 1

\* const timeout = 300000 in cleanupConnections (milliseconds)
Timeout == 300000

\* the clock is sampled coarsely: one advance exceeds the timeout
ClockStep == Timeout + 1

UserIds == 1..NumIds
Conns == 1..NumConns

\* null / undefined / a missing message field (all falsy in the source)
Null == 0

VARIABLES users, userOrder, waitingUsers, socks, now, sent, ev, pre, foreign

vars == <<users, userOrder, waitingUsers, socks, now, sent, ev, pre, foreign>>

\* ---------------------------------------------------------------- helpers
SeqToSet(q) == {q[i] : i \in 1..Len(q)}

\* Set.delete / Map.delete on an insertion-ordered collection
SeqDelete(q, x) == SelectSeq(q, LAMBDA y : y # x)

\* Set.add / Map.set of a new key: appended unless already present
SeqAdd(q, x) == IF x \in SeqToSet(q) THEN q ELSE Append(q, x)

\* an inbound message, uniform shape; a field that is absent is Null
Msg(type, userId, to, from, partnerId, body) ==
    [type |-> type, userId |-> userId, to |-> to, from |-> from,
     partnerId |-> partnerId, body |-> body]

NoMsg == Msg("none", Null, Null, Null, Null, Null)

\* the server state as one record, for the state-transforming operators
State == [users |-> users, userOrder |-> userOrder, waitingUsers |-> waitingUsers,
          socks |-> socks, now |-> now, sent |-> <<>>]

Has(s, id) == id \in DOMAIN s.users

\* ---------------------------------------------------------------- sending
safeWSend(s, ws, data) ==
    IF s.socks[ws].readyState = "open"
    THEN [s EXCEPT !.sent = Append(@, [ws |-> ws, data |-> data])]
    ELSE s

\* ws.close(code, reason): an OPEN socket starts closing
wsClose(s, ws) ==
    IF s.socks[ws].readyState = "open"
    THEN [s EXCEPT !.socks[ws].readyState = "closing"]
    ELSE s

RECURSIVE sendAll(_, _, _)
sendAll(s, ids, data) ==
    IF ids = <<>> THEN s
    ELSE sendAll(safeWSend(s, s.users[Head(ids)].ws, data), Tail(ids), data)

broadcastUserCount(s) ==
    sendAll(s, s.userOrder,
            [type |-> "user-count", count |-> Cardinality(DOMAIN s.users),
             waiting |-> Len(s.waitingUsers)])

\* ---------------------------------------------------------------- registry
\* users.set(id, rec): a Map keeps the position of a key it already holds
MapSet(s, id, rec) ==
    [s EXCEPT !.users = [k \in (DOMAIN s.users) \cup {id} |->
                            IF k = id THEN rec ELSE s.users[k]],
              !.userOrder = SeqAdd(@, id)]

\* users.delete(id)
MapDelete(s, id) ==
    [s EXCEPT !.users = [k \in (DOMAIN s.users) \ {id} |-> s.users[k]],
              !.userOrder = SeqDelete(@, id)]

\* ---------------------------------------------------------------- handlers
\* handleUserDisconnect that also drops the session from the registry
handleUserDisconnect_removes(s, ws, message) ==
    LET userId == message.userId
        partnerIdToNotify ==
            IF message.partnerId # Null THEN message.partnerId
            ELSE s.users[userId].partnerId
        s1 == IF partnerIdToNotify # Null /\ Has(s, partnerIdToNotify)
              THEN safeWSend(
                     [s EXCEPT !.users[partnerIdToNotify].partnerId = Null,
                               !.users[partnerIdToNotify].status = "idle"],
                     s.users[partnerIdToNotify].ws,
                     [type |-> "partner-disconnected"])
              ELSE s
    IN  IF ~Has(s, userId) THEN s
        ELSE MapDelete([s1 EXCEPT !.waitingUsers = SeqDelete(@, userId)], userId)

\* handleUserDisconnect that takes the session out of the pool without
\* resetting its status
handleUserDisconnect_keepsStatus(s, ws, message) ==
    LET userId == message.userId
        partnerIdToNotify ==
            IF message.partnerId # Null THEN message.partnerId
            ELSE s.users[userId].partnerId
        s1 == IF partnerIdToNotify # Null /\ Has(s, partnerIdToNotify)
              THEN safeWSend(
                     [s EXCEPT !.users[partnerIdToNotify].partnerId = Null,
                               !.users[partnerIdToNotify].status = "idle"],
                     s.users[partnerIdToNotify].ws,
                     [type |-> "partner-disconnected"])
              ELSE s
    IN  IF ~Has(s, userId) THEN s
        ELSE [s1 EXCEPT !.users[userId].partnerId = Null,
                        !.waitingUsers = SeqDelete(@, userId)]

handleUserDisconnect(s, ws, message) ==
    LET userId == message.userId
        partnerIdToNotify ==
            IF message.partnerId # Null THEN message.partnerId
            ELSE s.users[userId].partnerId
        s1 == IF partnerIdToNotify # Null /\ Has(s, partnerIdToNotify)
              THEN safeWSend(
                     [s EXCEPT !.users[partnerIdToNotify].partnerId = Null,
                               !.users[partnerIdToNotify].status = "idle"],
                     s.users[partnerIdToNotify].ws,
                     [type |-> "partner-disconnected"])
              ELSE s
    IN  IF ~Has(s, userId) THEN s
        ELSE [s1 EXCEPT !.users[userId].status = "idle",
                        !.users[userId].partnerId = Null,
                        !.waitingUsers = SeqDelete(@, userId)]

\* handleUserJoin without the reconnection branch
handleUserJoin_noSupersede(s, ws, message) ==
    LET userId == message.userId
        s2 == MapSet(s, userId,
                     [ws |-> ws, status |-> "idle", partnerId |-> Null,
                      lastSeen |-> s.now])
        s3 == [s2 EXCEPT !.socks[ws].userId = userId]
    IN  IF userId = Null
        THEN safeWSend(s, ws, [type |-> "error", message |-> "User ID required"])
        ELSE safeWSend(broadcastUserCount(s3), ws,
                       [type |-> "joined", userId |-> userId])

handleUserJoin(s, ws, message) ==
    LET userId == message.userId
        existingUser == s.users[userId]
        s1 == IF Has(s, userId)
              THEN [(IF existingUser.ws # ws THEN wsClose(s, existingUser.ws) ELSE s)
                     EXCEPT !.waitingUsers = SeqDelete(@, userId)]
              ELSE s
        s2 == MapSet(s1, userId,
                     [ws |-> ws, status |-> "idle", partnerId |-> Null,
                      lastSeen |-> s.now])
        s3 == [s2 EXCEPT !.socks[ws].userId = userId]
    IN  IF userId = Null
        THEN safeWSend(s, ws, [type |-> "error", message |-> "User ID required"])
        ELSE safeWSend(broadcastUserCount(s3), ws,
                       [type |-> "joined", userId |-> userId])

\* first member of the pool, in insertion order, that is another id, still
\* registered, still waiting, and whose socket is open; Null when none
\* the scan of findMatch without the check that excludes the requester
RECURSIVE scanWaiting_self(_, _, _)
scanWaiting_self(s, userId, pool) ==
    IF pool = <<>> THEN Null
    ELSE LET waitingUserId == Head(pool)
         IN  IF /\ Has(s, waitingUserId)
                /\ s.users[waitingUserId].status = "waiting"
                /\ s.socks[s.users[waitingUserId].ws].readyState = "open"
             THEN waitingUserId
             ELSE scanWaiting_self(s, userId, Tail(pool))

\* the scan of findMatch without the check of the candidate's connection
RECURSIVE scanWaiting_anySocket(_, _, _)
scanWaiting_anySocket(s, userId, pool) ==
    IF pool = <<>> THEN Null
    ELSE LET waitingUserId == Head(pool)
         IN  IF /\ waitingUserId # userId
                /\ Has(s, waitingUserId)
                /\ s.users[waitingUserId].status = "waiting"
             THEN waitingUserId
             ELSE scanWaiting_anySocket(s, userId, Tail(pool))

RECURSIVE scanWaiting(_, _, _)
scanWaiting(s, userId, pool) ==
    IF pool = <<>> THEN Null
    ELSE LET waitingUserId == Head(pool)
         IN  IF /\ waitingUserId # userId
                /\ Has(s, waitingUserId)
                /\ s.users[waitingUserId].status = "waiting"
                /\ s.socks[s.users[waitingUserId].ws].readyState = "open"
             THEN waitingUserId
             ELSE scanWaiting(s, userId, Tail(pool))

findMatch(s, userId) == scanWaiting(s, userId, s.waitingUsers)

\* createMatch that forgets to take the chosen waiter out of the pool
createMatch_keepsWaiter(s, userId1, userId2, user1Initiates) ==
    LET s1 == [s EXCEPT !.waitingUsers = SeqDelete(@, userId1),
                        !.users[userId1].status = "matched",
                        !.users[userId1].partnerId = userId2,
                        !.users[userId2].status = "matched",
                        !.users[userId2].partnerId = userId1]
        s2 == safeWSend(s1, s.users[userId1].ws,
                        [type |-> "matched", partnerId |-> userId2,
                         isInitiator |-> user1Initiates])
    IN  IF ~Has(s, userId1) \/ ~Has(s, userId2) THEN s
        ELSE safeWSend(s2, s.users[userId2].ws,
                       [type |-> "matched", partnerId |-> userId1,
                        isInitiator |-> ~user1Initiates])

\* user1Initiates is the outcome of Math.random() < 0.5
createMatch(s, userId1, userId2, user1Initiates) ==
    LET s1 == [s EXCEPT !.waitingUsers = SeqDelete(SeqDelete(@, userId1), userId2),
                        !.users[userId1].status = "matched",
                        !.users[userId1].partnerId = userId2,
                        !.users[userId2].status = "matched",
                        !.users[userId2].partnerId = userId1]
        s2 == safeWSend(s1, s.users[userId1].ws,
                        [type |-> "matched", partnerId |-> userId2,
                         isInitiator |-> user1Initiates])
    IN  IF ~Has(s, userId1) \/ ~Has(s, userId2) THEN s
        ELSE safeWSend(s2, s.users[userId2].ws,
                       [type |-> "matched", partnerId |-> userId1,
                        isInitiator |-> ~user1Initiates])

\* handleFindMatch that does not leave the current match first
handleFindMatch_keepsPartner(s, ws, message, coin) ==
    LET userId == message.userId
        s2 == [s EXCEPT !.users[userId].status = "waiting",
                        !.waitingUsers = SeqAdd(@, userId)]
        match == findMatch(s2, userId)
    IN  IF ~Has(s, userId)
        THEN safeWSend(s, ws, [type |-> "error", message |-> "User not found"])
        ELSE IF match # Null
             THEN createMatch(s2, userId, match, coin)
             ELSE safeWSend(s2, ws, [type |-> "waiting"])

\* handleFindMatch that enqueues the id before looking the session up
handleFindMatch_enqueuesFirst(s, ws, message, coin) ==
    LET userId == message.userId
        s0 == [s EXCEPT !.waitingUsers = SeqAdd(@, userId)]
        s1 == IF s.users[userId].partnerId # Null
              THEN handleUserDisconnect(s0, ws,
                       [userId |-> userId, partnerId |-> s.users[userId].partnerId])
              ELSE s0
        s2 == [s1 EXCEPT !.users[userId].status = "waiting",
                         !.waitingUsers = SeqAdd(@, userId)]
        match == findMatch(s2, userId)
    IN  IF ~Has(s, userId)
        THEN safeWSend(s0, ws, [type |-> "error", message |-> "User not found"])
        ELSE IF match # Null
             THEN createMatch(s2, userId, match, coin)
             ELSE safeWSend(s2, ws, [type |-> "waiting"])

\* handleFindMatch that enqueues the requester without looking for a match
handleFindMatch_noPairing(s, ws, message, coin) ==
    LET userId == message.userId
        s1 == IF s.users[userId].partnerId # Null
              THEN handleUserDisconnect(s, ws,
                       [userId |-> userId, partnerId |-> s.users[userId].partnerId])
              ELSE s
        s2 == [s1 EXCEPT !.users[userId].status = "waiting",
                         !.waitingUsers = SeqAdd(@, userId)]
    IN  IF ~Has(s, userId)
        THEN safeWSend(s, ws, [type |-> "error", message |-> "User not found"])
        ELSE safeWSend(s2, ws, [type |-> "waiting"])

handleFindMatch(s, ws, message, coin) ==
    LET userId == message.userId
        s1 == IF s.users[userId].partnerId # Null
              THEN handleUserDisconnect(s, ws,
                       [userId |-> userId, partnerId |-> s.users[userId].partnerId])
              ELSE s
        s2 == [s1 EXCEPT !.users[userId].status = "waiting",
                         !.waitingUsers = SeqAdd(@, userId)]
        match == findMatch(s2, userId)
    IN  IF ~Has(s, userId)
        THEN safeWSend(s, ws, [type |-> "error", message |-> "User not found"])
        ELSE IF match # Null
             THEN createMatch(s2, userId, match, coin)
             ELSE safeWSend(s2, ws, [type |-> "waiting"])

\* handleSignalingMessage that forwards the client's own from field
handleSignalingMessage_keepsFrom(s, ws, message) ==
    LET to == message.to
    IN  IF to = Null
        THEN safeWSend(s, ws, [type |-> "error", message |-> "Target user ID required"])
        ELSE IF ~Has(s, to) \/ s.socks[s.users[to].ws].readyState # "open"
             THEN safeWSend(s, ws, [type |-> "error",
                                    message |-> "Target user not found or not connected"])
             ELSE safeWSend(s, s.users[to].ws, message)

\* handleSignalingMessage that pushes to a registered target without looking
\* at its connection
handleSignalingMessage_noTargetCheck(s, ws, message) ==
    LET to == message.to
        forwardedMessage == [message EXCEPT !.from = s.socks[ws].userId]
    IN  IF to = Null
        THEN safeWSend(s, ws, [type |-> "error", message |-> "Target user ID required"])
        ELSE IF ~Has(s, to)
             THEN safeWSend(s, ws, [type |-> "error",
                                    message |-> "Target user not found or not connected"])
             ELSE safeWSend(s, s.users[to].ws, forwardedMessage)

handleSignalingMessage(s, ws, message) ==
    LET to == message.to
        forwardedMessage == [message EXCEPT !.from = s.socks[ws].userId]
    IN  IF to = Null
        THEN safeWSend(s, ws, [type |-> "error", message |-> "Target user ID required"])
        ELSE IF ~Has(s, to) \/ s.socks[s.users[to].ws].readyState # "open"
             THEN safeWSend(s, ws, [type |-> "error",
                                    message |-> "Target user not found or not connected"])
             ELSE safeWSend(s, s.users[to].ws, forwardedMessage)

\* safeWSend when ws.send throws: the catch block logs the error and
\* returns, nothing reaches the socket and nobody else is told
safeWSendThrows(s, ws, data) == s

\* handleSignalingMessage in a run where the push onto the target's socket
\* throws
handleSignalingMessageThrows(s, ws, message) ==
    LET to == message.to
        forwardedMessage == [message EXCEPT !.from = s.socks[ws].userId]
    IN  IF to = Null
        THEN safeWSend(s, ws, [type |-> "error", message |-> "Target user ID required"])
        ELSE IF ~Has(s, to) \/ s.socks[s.users[to].ws].readyState # "open"
             THEN safeWSend(s, ws, [type |-> "error",
                                    message |-> "Target user not found or not connected"])
             ELSE safeWSendThrows(s, s.users[to].ws, forwardedMessage)

handleMessage(s, ws, message, coin) ==
    CASE message.type = "join" -> handleUserJoin(s, ws, message)
      [] message.type = "find-match" -> handleFindMatch(s, ws, message, coin)
      [] message.type \in {"offer", "answer", "ice-candidate"} ->
             handleSignalingMessage(s, ws, message)
      [] message.type = "disconnect" -> handleUserDisconnect(s, ws, message)
      [] OTHER -> safeWSend(s, ws, [type |-> "error", message |-> "Unknown message type"])

\* handleDisconnection that removes the session without running the
\* disconnect protocol against its partner
handleDisconnection_noNotify(s, ws) ==
    LET userId == s.socks[ws].userId
        s2 == [MapDelete(s, userId) EXCEPT !.waitingUsers = SeqDelete(@, userId)]
    IN  IF userId = Null \/ ~Has(s, userId) THEN s
        ELSE broadcastUserCount(s2)

\* handleDisconnection that broadcasts the count before it removes the session
handleDisconnection_broadcastFirst(s, ws) ==
    LET userId == s.socks[ws].userId
        s1 == IF s.users[userId].partnerId # Null
              THEN handleUserDisconnect(s, ws,
                       [userId |-> userId, partnerId |-> s.users[userId].partnerId])
              ELSE s
        s2 == broadcastUserCount(s1)
    IN  IF userId = Null \/ ~Has(s, userId) THEN s
        ELSE [MapDelete(s2, userId) EXCEPT !.waitingUsers = SeqDelete(@, userId)]

handleDisconnection(s, ws) ==
    LET userId == s.socks[ws].userId
        s1 == IF s.users[userId].partnerId # Null
              THEN handleUserDisconnect(s, ws,
                       [userId |-> userId, partnerId |-> s.users[userId].partnerId])
              ELSE s
        s2 == [MapDelete(s1, userId) EXCEPT !.waitingUsers = SeqDelete(@, userId)]
    IN  IF userId = Null \/ ~Has(s, userId) THEN s
        ELSE broadcastUserCount(s2)

\* ---------------------------------------------------------------- liveness sweep
\* first loop of cleanupConnections: closes the timed-out sockets and
\* collects disconnectedUsers; returns [s, list]
RECURSIVE sweepScan(_, _, _)
sweepScan(s, ids, acc) ==
    IF ids = <<>> THEN [s |-> s, disconnectedUsers |-> acc]
    ELSE LET userId == Head(ids)
             user == s.users[userId]
         IN  IF s.socks[user.ws].readyState # "open"
             THEN sweepScan(s, Tail(ids), Append(acc, userId))
             ELSE IF s.now - user.lastSeen > Timeout
                  THEN sweepScan(wsClose(s, user.ws), Tail(ids), Append(acc, userId))
                  ELSE sweepScan(s, Tail(ids), acc)

\* second loop of cleanupConnections
RECURSIVE sweepRemove(_, _)
sweepRemove(s, ids) ==
    IF ids = <<>> THEN s
    ELSE sweepRemove(IF Has(s, Head(ids))
                     THEN handleDisconnection(s, s.users[Head(ids)].ws)
                     ELSE s,
                     Tail(ids))

cleanupConnections(s) ==
    LET r == sweepScan(s, s.userOrder, <<>>)
    IN  sweepRemove(r.s, r.disconnectedUsers)

\* ---------------------------------------------------------------- inputs
RelayTypes == {"offer", "answer", "ice-candidate"}

\* Ids are opaque to the server and connections are interchangeable, so
\* the environment is explored up to renaming: connections open in
\* numerical order, and of the ids the server holds no trace of, a client
\* names only the smallest.
Mentioned ==
    (DOMAIN users) \cup {socks[c].userId : c \in Conns}
    \cup {users[u].partnerId : u \in DOMAIN users} \cup SeqToSet(waitingUsers)

Fresh == UserIds \ Mentioned

NameableIds ==
    (Mentioned \cap UserIds)
    \cup (IF Fresh = {} THEN {} ELSE {CHOOSE u \in Fresh : \A v \in Fresh : u <= v})

\* the inbound messages a client may send (a client chooses every field);
\* a relayed offer carries a from field of the client's choosing
Messages ==
    LET ids == NameableIds \cup {Null}
    IN  {Msg("join", u, Null, Null, Null, Null) : u \in ids}
        \cup {Msg("find-match", u, Null, Null, Null, Null) : u \in ids}
        \cup {Msg("disconnect", u, Null, Null, p, Null) : u \in ids, p \in ids}
        \cup {Msg(t, IF t = "offer" THEN 2 ELSE Null, to,
                   IF t = "offer" THEN 1 ELSE Null, Null, 1) :
                  t \in RelayTypes, to \in ids}
        \cup {Msg("bogus", Null, Null, Null, Null, Null)}

\* a message that names an id other than the one its connection joined
\* with, or a partner other than the one the registry holds
Foreign(c, m) ==
    LET tag == socks[c].userId
    IN  \/ m.type = "join" /\ tag # Null /\ m.userId # Null /\ m.userId # tag
        \/ m.type \in {"find-match", "disconnect"} /\ m.userId \notin {Null, tag}
        \/ /\ m.type = "disconnect" /\ m.partnerId # Null
           /\ ~(m.userId \in DOMAIN users /\ users[m.userId].partnerId = m.partnerId)

Event(kind, ws, message) == [kind |-> kind, ws |-> ws, message |-> message]

Idle == Event("idle", Null, NoMsg)

InitState == [users |-> <<>>, userOrder |-> <<>>, waitingUsers |-> <<>>,
              socks |-> [c \in Conns |-> [readyState |-> "new", userId |-> Null]],
              now |-> 0, sent |-> <<>>]

\* ---------------------------------------------------------------- actions
\* a handler that starts in the current state and ends in state s
Handle(e, s) ==
    /\ foreign' = foreign + (IF e.kind = "message" /\ Foreign(e.ws, e.message) THEN 1 ELSE 0)
    /\ users' = s.users
    /\ userOrder' = s.userOrder
    /\ waitingUsers' = s.waitingUsers
    /\ socks' = s.socks
    /\ now' = s.now
    /\ sent' = s.sent
    /\ ev' = e
    /\ pre' = State

Init ==
    /\ users = InitState.users
    /\ userOrder = InitState.userOrder
    /\ waitingUsers = InitState.waitingUsers
    /\ socks = InitState.socks
    /\ now = InitState.now
    /\ sent = <<>>
    /\ ev = Idle
    /\ pre = InitState
    /\ foreign = 0

\* the handler returns to the event loop
Return ==
    /\ ev # Idle
    /\ ev' = Idle
    /\ sent' = <<>>
    /\ pre' = InitState
    /\ UNCHANGED <<users, userOrder, waitingUsers, socks, now, foreign>>

\* wss.on('connection'): a new socket is OPEN; the count is broadcast
Connect(c) ==
    /\ ev = Idle
    /\ socks[c].readyState = "new"
    /\ \A d \in Conns : d < c => socks[d].readyState # "new"
    /\ Handle(Event("connect", c, NoMsg),
              broadcastUserCount([State EXCEPT !.socks[c].readyState = "open"]))

\* ws.on('message') with a message that parses
Message(c, m, coin) ==
    /\ socks[c].readyState = "open"
    /\ Handle(Event("message", c, m), handleMessage(State, c, m, coin))

\* ws.on('message') with data JSON.parse rejects
InvalidMessage(c) ==
    /\ ev = Idle
    /\ socks[c].readyState = "open"
    /\ Handle(Event("invalid", c, NoMsg),
              safeWSend(State, c, [type |-> "error", message |-> "Invalid message format"]))

\* the peer or the network starts closing the socket; no handler runs yet
BeginClose(c) ==
    /\ ev = Idle
    /\ socks[c].readyState = "open"
    /\ Handle(Event("begin-close", c, NoMsg),
              [State EXCEPT !.socks[c].readyState = "closing"])

\* ws.on('error'): the socket is failing, its 'close' event follows
ErrorEvent(c) ==
    /\ ev = Idle
    /\ socks[c].readyState = "open"
    /\ Handle(Event("error", c, NoMsg),
              handleDisconnection([State EXCEPT !.socks[c].readyState = "closing"], c))

\* ws.on('close'): the socket, CLOSING since its close began, is CLOSED when
\* the event is delivered
CloseEvent(c) ==
    /\ ev = Idle
    /\ socks[c].readyState = "closing"
    /\ Handle(Event("close", c, NoMsg),
              handleDisconnection([State EXCEPT !.socks[c].readyState = "closed"], c))

\* ws.on('pong')
onPong(s, ws) ==
    IF s.socks[ws].userId # Null /\ Has(s, s.socks[ws].userId)
    THEN [s EXCEPT !.users[s.socks[ws].userId].lastSeen = s.now]
    ELSE s

Pong(c) ==
    /\ ev = Idle
    /\ socks[c].readyState = "open"
    /\ Handle(Event("pong", c, NoMsg), onPong(State, c))

\* ws.on('message') with a relay message for an open target, in a run
\* where ws.send on the target's socket throws
PushFails(c) ==
    /\ ev = Idle
    /\ socks[c].readyState = "open"
    /\ \E m \in Messages :
          /\ m.type \in RelayTypes
          /\ m.to \in DOMAIN users
          /\ socks[users[m.to].ws].readyState = "open"
          /\ Handle(Event("push-fails", c, m), handleSignalingMessageThrows(State, c, m))

\* setInterval(cleanupConnections, 60000)
Sweep ==
    /\ ev = Idle
    /\ Handle(Event("sweep", Null, NoMsg), cleanupConnections(State))

\* Date.now() advances
Tick ==
    /\ ev = Idle
    /\ now < MaxTicks * ClockStep
    /\ Handle(Event("tick", Null, NoMsg), [State EXCEPT !.now = now + ClockStep])

\* the clients of Spec name their own id in every message
OwnMessage(c) ==
    /\ ev = Idle
    /\ \E m \in Messages :
          \E coin \in (IF m.type = "find-match" THEN BOOLEAN ELSE {TRUE}) :
              ~Foreign(c, m) /\ Message(c, m, coin)

\* the clients of SpecOpen may send up to MaxForeign foreign messages
AnyMessage(c) ==
    /\ ev = Idle
    /\ \E m \in Messages :
          \E coin \in (IF m.type = "find-match" THEN BOOLEAN ELSE {TRUE}) :
              (Foreign(c, m) => foreign < MaxForeign) /\ Message(c, m, coin)

\* Spec: three connections whose clients name their own id, in a run
\* shorter than the timeout
Next ==
    \/ \E c \in Conns : Connect(c)
    \/ \E c \in Conns : OwnMessage(c)
    \/ \E c \in Conns : InvalidMessage(c)
    \/ \E c \in Conns : BeginClose(c)
    \/ \E c \in Conns : ErrorEvent(c)
    \/ \E c \in Conns : CloseEvent(c)
    \/ \E c \in Conns : Pong(c)
    \/ \E c \in Conns : PushFails(c)
    \/ Sweep
    \/ Return

Spec == Init /\ [][Next]_vars

\* SpecOpen: one connection fewer, but clients may send up to MaxForeign
\* foreign messages and the clock advances up to MaxTicks times
OpenConns == 1..(NumConns - 1)

NextOpen ==
    \/ \E c \in OpenConns : Connect(c)
    \/ \E c \in OpenConns : AnyMessage(c)
    \/ \E c \in OpenConns : InvalidMessage(c)
    \/ \E c \in OpenConns : BeginClose(c)
    \/ \E c \in OpenConns : ErrorEvent(c)
    \/ \E c \in OpenConns : CloseEvent(c)
    \/ \E c \in OpenConns : Pong(c)
    \/ \E c \in OpenConns : PushFails(c)
    \/ Sweep
    \/ Tick
    \/ Return

SpecOpen == Init /\ [][NextOpen]_vars

\* ---------------------------------------------------------------- observations
Registered == DOMAIN users
WasRegistered == DOMAIN pre.users
Pool == SeqToSet(waitingUsers)
PrePool == SeqToSet(pre.waitingUsers)

\* the handler that just ran handled an inbound message of this type
Handled(type) == ev.kind = "message" /\ ev.message.type = type

\* positions in sent of the messages of a type pushed onto a socket
SentTo(ws, type) == {i \in 1..Len(sent) : sent[i].ws = ws /\ sent[i].data.type = type}

SentOfType(type) == {i \in 1..Len(sent) : sent[i].data.type = type}

IsOpen(sockets, ws) == sockets[ws].readyState = "open"

\* ---------------------------------------------------------------- C1
\* C1: every registered session is matched iff it has a partnerId, and when
\* A's partnerId is B and B is registered, B is matched with partnerId A.
C1_PartnerSymmetry ==
    \A a \in Registered :
        /\ (users[a].status = "matched") <=> (users[a].partnerId # Null)
        /\ users[a].partnerId \in Registered =>
               /\ users[users[a].partnerId].status = "matched"
               /\ users[users[a].partnerId].partnerId = a

\* ---------------------------------------------------------------- C2
\* C2: no id is in the waiting pool while its session has status matched.
C2_PoolExcludesMatched ==
    \A u \in Pool : u \in Registered => users[u].status # "matched"

\* a match has just been made while another id is waiting in the pool
C2_Witness ==
    /\ Handled("find-match")
    /\ SentOfType("matched") # {}
    /\ Pool # {}
    /\ \E u \in Registered : users[u].status = "matched"

\* ---------------------------------------------------------------- C3
\* C3: every id in the waiting pool is registered and its session has
\* status waiting.
C3_PoolIsWaiting ==
    \A u \in Pool : u \in Registered /\ users[u].status = "waiting"

\* ---------------------------------------------------------------- C4
\* the id a join, find-match or disconnect message names
Subject == ev.message.userId

\* C4: a join for an id registered under a different connection leaves the
\* old connection not open (closing, if it was open), the id out of the
\* waiting pool, and exactly one session for the id: bound to the new
\* connection, idle, partnerId null.
C4_Rejoin ==
    (/\ Handled("join")
     /\ Subject \in WasRegistered
     /\ pre.users[Subject].ws # ev.ws)
    => LET old == pre.users[Subject].ws
       IN  /\ ~IsOpen(socks, old)
           /\ IsOpen(pre.socks, old) => socks[old].readyState = "closing"
           /\ Subject \notin Pool
           /\ Subject \in Registered
           /\ Cardinality({i \in 1..Len(userOrder) : userOrder[i] = Subject}) = 1
           /\ users[Subject].ws = ev.ws
           /\ users[Subject].status = "idle"
           /\ users[Subject].partnerId = Null

\* a matched id, whose old connection is open, joins from another connection
C4_Witness ==
    /\ Handled("join")
    /\ Subject \in WasRegistered
    /\ pre.users[Subject].ws # ev.ws
    /\ pre.users[Subject].status = "matched"
    /\ IsOpen(pre.socks, pre.users[Subject].ws)

\* ---------------------------------------------------------------- C5
\* the sessions that end or leave their match in the handler that just ran
Leavers ==
    IF ev.kind = "message" /\ ev.message.type \in {"disconnect", "find-match", "join"}
    THEN {Subject} \cap WasRegistered
    ELSE IF ev.kind \in {"close", "error"}
         THEN {pre.socks[ev.ws].userId} \cap WasRegistered
         ELSE IF ev.kind = "sweep" THEN WasRegistered \ Registered ELSE {}

MutuallyMatched(us, a, b) ==
    /\ a \in DOMAIN us /\ b \in DOMAIN us
    /\ us[a].status = "matched" /\ us[a].partnerId = b
    /\ us[b].status = "matched" /\ us[b].partnerId = a

\* C5: whenever a session matched with P ends or leaves the match, P, if
\* still registered, is idle with partnerId null after that same step and
\* was sent partner-disconnected in it.
C5_PartnerNotified ==
    \A x \in Leavers : \A p \in Registered :
        MutuallyMatched(pre.users, x, p) =>
            /\ users[p].status = "idle"
            /\ users[p].partnerId = Null
            /\ SentTo(users[p].ws, "partner-disconnected") # {}

\* ---------------------------------------------------------------- C6
\* the matched messages pushed onto a socket that name a given partner
MatchedMsgs(ws, partner) ==
    {i \in SentTo(ws, "matched") : sent[i].data.partnerId = partner}

\* the other pool members that are waiting on an open connection when the
\* find-match arrives
Candidates ==
    {y \in PrePool \cap WasRegistered :
        /\ y # Subject
        /\ pre.users[y].status = "waiting"
        /\ IsOpen(pre.socks, pre.users[y].ws)}

PairedWith(y) ==
    /\ MutuallyMatched(users, Subject, y)
    /\ Subject \notin Pool /\ y \notin Pool
    /\ Cardinality(MatchedMsgs(users[Subject].ws, y)) = 1
    /\ Cardinality(MatchedMsgs(users[y].ws, Subject)) = 1
    /\ \A i \in MatchedMsgs(users[Subject].ws, y) :
           \A j \in MatchedMsgs(users[y].ws, Subject) :
               sent[i].data.isInitiator # sent[j].data.isInitiator

\* C6: a find-match sent by a registered session over its own connection
\* pairs it with a waiting, open pool member when there is one (both
\* matched with each other, out of the pool, one matched message each with
\* complementary isInitiator); otherwise it is waiting, pooled and sent
\* waiting.
C6_FindMatchOutcome ==
    (/\ Handled("find-match")
     /\ Subject \in WasRegistered
     /\ pre.users[Subject].ws = ev.ws)
    => IF Candidates # {}
       THEN \E y \in Candidates : PairedWith(y)
       ELSE /\ users[Subject].status = "waiting"
            /\ Subject \in Pool
            /\ Cardinality(SentTo(ev.ws, "waiting")) = 1

\* ---------------------------------------------------------------- C7
\* C7: no session is its own partner, and a find-match whose sender is the
\* only possible pool member is left waiting in the pool, is sent waiting
\* and no matched message goes out.
C7_NoSelfMatch ==
    /\ \A u \in Registered : users[u].partnerId # u
    /\ (/\ Handled("find-match")
        /\ Subject \in WasRegistered
        /\ PrePool \subseteq {Subject})
       => /\ users[Subject].status = "waiting"
          /\ Subject \in Pool
          /\ SentOfType("matched") = {}
          /\ Cardinality(SentTo(ev.ws, "waiting")) = 1

\* the sender is already pooled, alone, when it asks again
C7_Witness ==
    /\ Handled("find-match")
    /\ Subject \in WasRegistered
    /\ PrePool = {Subject}
    /\ Cardinality(WasRegistered) > 1

\* ---------------------------------------------------------------- C8
DeadPooled ==
    {y \in PrePool \cap WasRegistered : ~IsOpen(pre.socks, pre.users[y].ws)}

Selected ==
    (/\ Handled("find-match")
     /\ Subject \in WasRegistered
     /\ users[Subject].status = "matched")
    => LET y == users[Subject].partnerId
       IN  /\ y \in PrePool \cap WasRegistered
           /\ pre.users[y].status = "waiting"
           /\ IsOpen(pre.socks, pre.users[y].ws)

\* C8 as stated: the session a find-match pairs its sender with was
\* waiting on an open connection when the request arrived, and a pool
\* member whose connection is not open is never matched by a step.
C8_AsStated ==
    /\ Selected
    /\ \A y \in DeadPooled : y \in Registered => users[y].status # "matched"

\* C8 amended: the selected candidate was waiting on an open connection,
\* and a pool member whose connection is not open is matched only by a
\* find-match that names its own id, where it is the requester.
C8_LiveCandidate ==
    /\ Selected
    /\ \A y \in DeadPooled :
           (y \in Registered /\ users[y].status = "matched")
           => Handled("find-match") /\ Subject = y

\* a pooled session on a dead connection is passed over for a later, live one
C8_Witness ==
    /\ Handled("find-match")
    /\ Subject \in WasRegistered
    /\ users[Subject].status = "matched"
    /\ \E i, j \in 1..Len(pre.waitingUsers) :
           /\ i < j
           /\ pre.waitingUsers[i] \in DeadPooled \ {Subject}
           /\ pre.users[pre.waitingUsers[i]].status = "waiting"
           /\ pre.waitingUsers[j] = users[Subject].partnerId

\* ---------------------------------------------------------------- C9
\* the sender of the find-match holds a partner that is still registered
Superseding ==
    /\ Handled("find-match")
    /\ Subject \in WasRegistered
    /\ pre.users[Subject].status = "matched"
    /\ pre.users[Subject].partnerId \in WasRegistered

OldPartner == pre.users[Subject].partnerId

\* the partner-disconnected pushed to the old partner precedes every
\* waiting or matched message of the step
NotifiedFirst ==
    /\ Cardinality(SentTo(pre.users[OldPartner].ws, "partner-disconnected")) = 1
    /\ \A i \in SentTo(pre.users[OldPartner].ws, "partner-disconnected") :
           \A j \in SentOfType("waiting") \cup SentOfType("matched") : i < j

Requeued ==
    /\ OldPartner \in Registered
    /\ users[OldPartner].status = "idle"
    /\ users[OldPartner].partnerId = Null
    /\ \/ users[Subject].status = "waiting" /\ Subject \in Pool
       \/ /\ users[Subject].status = "matched"
          /\ users[Subject].partnerId # OldPartner
          /\ users[Subject].partnerId \in Registered

\* C9 as stated: the old partner B is reset and is sent partner-disconnected
\* before A is enqueued, and A ends waiting in the pool or matched with a
\* session other than B.
C9_AsStated == Superseding => Requeued /\ NotifiedFirst

\* C9 amended: B is reset, is sent partner-disconnected first when its
\* connection is open (nothing is pushed to it otherwise), and A ends
\* waiting in the pool or matched with a session other than B.
C9_Supersede ==
    Superseding =>
        /\ Requeued
        /\ IF IsOpen(pre.socks, pre.users[OldPartner].ws)
           THEN NotifiedFirst
           ELSE SentOfType("partner-disconnected") = {}

\* A leaves B, whose connection is open, and is paired with a third session
C9_Witness ==
    /\ Superseding
    /\ MutuallyMatched(pre.users, Subject, OldPartner)
    /\ IsOpen(pre.socks, pre.users[OldPartner].ws)
    /\ users[Subject].status = "matched"

\* ---------------------------------------------------------------- C10
\* a relay message arrives on the connection its sender is registered on,
\* for a registered target whose connection is open
Relaying ==
    /\ ev.kind = "message"
    /\ ev.message.type \in RelayTypes
    /\ pre.socks[ev.ws].userId \in WasRegistered
    /\ pre.users[pre.socks[ev.ws].userId].ws = ev.ws
    /\ ev.message.to \in WasRegistered
    /\ IsOpen(pre.socks, pre.users[ev.message.to].ws)

\* C10: the target receives exactly one message, equal to the inbound one
\* in every field except from, which is the sender's registered id
\* whatever the client supplied.
C10_RelayFrom ==
    Relaying =>
        /\ Len(sent) = 1
        /\ sent[1].ws = pre.users[ev.message.to].ws
        /\ DOMAIN sent[1].data = DOMAIN ev.message
        /\ sent[1].data.from = pre.socks[ev.ws].userId
        /\ \A f \in DOMAIN ev.message \ {"from"} : sent[1].data[f] = ev.message[f]

\* the client supplied a from and a userId that are not its own id
C10_Witness ==
    /\ Relaying
    /\ ev.message.from \notin {Null, pre.socks[ev.ws].userId}
    /\ ev.message.userId \notin {Null, pre.socks[ev.ws].userId}
    /\ ev.message.to # pre.socks[ev.ws].userId

\* ---------------------------------------------------------------- C11
\* nothing of the registry or of the waiting pool differs from the state
\* the handler started from
RegistryUnchanged ==
    /\ users = pre.users
    /\ userOrder = pre.userOrder
    /\ waitingUsers = pre.waitingUsers

\* a relay message names a target that is not registered, or is registered
\* on a connection that is not open
Undeliverable ==
    /\ ev.kind = "message"
    /\ ev.message.type \in RelayTypes
    /\ ev.message.to # Null
    /\ \/ ev.message.to \notin WasRegistered
       \/ ~IsOpen(pre.socks, pre.users[ev.message.to].ws)

\* C11: a relay to a target that is not registered or whose connection is
\* not open delivers nothing to any other session, sends one error to the
\* sender alone, and leaves the registry and the waiting pool unchanged.
C11_TargetNotFound ==
    Undeliverable =>
        /\ Len(sent) = 1
        /\ sent[1].ws = ev.ws
        /\ sent[1].data.type = "error"
        /\ RegistryUnchanged

\* the target is registered, matched with the sender, and its connection is
\* closing
C11_Witness ==
    /\ Undeliverable
    /\ ev.message.to \in WasRegistered
    /\ pre.users[ev.message.to].partnerId = pre.socks[ev.ws].userId
    /\ pre.users[ev.message.to].status = "matched"
    /\ pre.socks[pre.users[ev.message.to].ws].readyState = "closing"

\* ---------------------------------------------------------------- C12
\* a relay message was handled, whether or not its push went through
AnyRelay ==
    /\ ev.kind \in {"message", "push-fails"}
    /\ ev.message.type \in RelayTypes

\* the frame half of C12: no relay changes the registry, the waiting pool
\* or any session's status or partnerId
RelayFrame == AnyRelay => RegistryUnchanged

\* C12: no relay, successful or failed, changes the registry or the waiting
\* pool, and when the push onto the target's connection fails the sender is
\* sent an error and the target receives nothing.
C12_FireAndForget ==
    /\ RelayFrame
    /\ ev.kind = "push-fails" =>
           /\ SentTo(ev.ws, "error") # {}
           /\ \A i \in 1..Len(sent) : sent[i].data.type = "error"

\* ---------------------------------------------------------------- C13
\* the id the connection of the event joined with
Closer == pre.socks[ev.ws].userId

\* the close event of the connection of a session that is matched with a
\* registered partner
ClosingMatched ==
    /\ ev.kind = "close"
    /\ Closer \in WasRegistered
    /\ pre.users[Closer].ws = ev.ws
    /\ pre.users[Closer].status = "matched"
    /\ pre.users[Closer].partnerId \in WasRegistered

FormerPartner == pre.users[Closer].partnerId

\* the waiting sessions on an open connection that a find-match by b could
\* be paired with in the current state
LiveWaiters(b) ==
    {y \in Pool \cap Registered :
        y # b /\ users[y].status = "waiting" /\ IsOpen(socks, users[y].ws)}

\* a find-match by b, handled in the current state, pairs b with a live
\* waiter when there is one and leaves b waiting in the pool otherwise
Eligible(b) ==
    LET s == handleFindMatch(State, users[b].ws,
                             Msg("find-match", b, Null, Null, Null, Null), TRUE)
    IN  IF LiveWaiters(b) # {}
        THEN s.users[b].status = "matched" /\ s.users[b].partnerId \in LiveWaiters(b)
        ELSE s.users[b].status = "waiting" /\ b \in SeqToSet(s.waitingUsers)

Released ==
    /\ Closer \notin Registered
    /\ Closer \notin Pool
    /\ FormerPartner \in Registered
    /\ users[FormerPartner].status = "idle"
    /\ users[FormerPartner].partnerId = Null
    /\ Eligible(FormerPartner)

\* C13 as stated: when the connection of A closes while A is matched with
\* B, that step removes A from the registry and the pool, resets B to idle
\* with partnerId null, sends B exactly one partner-disconnected, and a
\* find-match by B can then be paired with any live waiting session.
C13_AsStated ==
    ClosingMatched =>
        /\ Released
        /\ Cardinality(SentTo(pre.users[FormerPartner].ws, "partner-disconnected")) = 1

\* C13 amended: the same, but B is sent its one partner-disconnected only
\* when B's connection is open; nothing is pushed to it otherwise.
C13_FullDisconnect ==
    ClosingMatched =>
        /\ Released
        /\ Cardinality(SentOfType("partner-disconnected"))
               = (IF IsOpen(pre.socks, pre.users[FormerPartner].ws) THEN 1 ELSE 0)
        /\ \A i \in SentOfType("partner-disconnected") :
               sent[i].ws = pre.users[FormerPartner].ws

\* A and B are matched with each other, B's connection is open and another
\* session is waiting when A's connection closes
C13_Witness ==
    /\ ClosingMatched
    /\ MutuallyMatched(pre.users, Closer, FormerPartner)
    /\ IsOpen(pre.socks, pre.users[FormerPartner].ws)
    /\ LiveWaiters(FormerPartner) # {}

\* ---------------------------------------------------------------- C14
\* the sessions a sweep finds on an open connection with lastSeen older
\* than the timeout
Stale ==
    {x \in WasRegistered :
        /\ IsOpen(pre.socks, pre.users[x].ws)
        /\ pre.now - pre.users[x].lastSeen > Timeout}

\* how many partner-disconnected messages a list of pushes holds for a socket
Notices(pushes, ws) ==
    Cardinality({i \in 1..Len(pushes) :
                    pushes[i].ws = ws /\ pushes[i].data.type = "partner-disconnected"})

\* what the close event of a connection pushes when it is delivered next
LaterClose(ws) ==
    handleDisconnection([State EXCEPT !.socks[ws].readyState = "closed"], ws).sent

Evicted(x) ==
    /\ ~IsOpen(socks, pre.users[x].ws)
    /\ x \notin Registered
    /\ x \notin Pool

\* C14: a sweep closes the connection of every session that is stale on an
\* open connection and removes it from the registry and the pool; a partner
\* it was matched with is idle with partnerId null and receives
\* partner-disconnected exactly once, counting the sweep and the close
\* event delivered afterwards for the evicted connection.
C14_StaleEviction ==
    ev.kind = "sweep" =>
        \A x \in Stale :
            /\ Evicted(x)
            /\ \A p \in WasRegistered :
                   MutuallyMatched(pre.users, x, p) =>
                       /\ p \in Registered
                       /\ users[p].status = "idle"
                       /\ users[p].partnerId = Null
                       /\ Notices(sent, pre.users[p].ws)
                              + Notices(LaterClose(pre.users[x].ws), pre.users[p].ws) = 1

\* ---------------------------------------------------------------- C17
\* the sessions whose connection is not open when the sweep starts
Dead == {x \in WasRegistered : ~IsOpen(pre.socks, pre.users[x].ws)}

\* C17: a sweep fully tears down every registered session whose connection
\* is not open when it starts: after the sweep the session is in neither
\* the registry nor the waiting pool.
C17_SweepRemovesDead ==
    ev.kind = "sweep" => \A x \in Dead : x \notin Registered /\ x \notin Pool

\* ---------------------------------------------------------------- C15
\* a handler run left the registry and the pool as they are now and pushed
\* nothing
NoEffect(s) ==
    /\ s.users = users
    /\ s.userOrder = userOrder
    /\ s.waitingUsers = waitingUsers
    /\ s.sent = <<>>

\* full teardown of the connection of the event, run once more right after
\* the handler that just ran
TeardownAgain ==
    handleDisconnection([State EXCEPT !.socks[ev.ws].readyState = "closed"], ev.ws)

\* the disconnect message of the event, handled once more right away
DisconnectAgain == handleUserDisconnect(State, ev.ws, ev.message)

\* the teardown half of C15: a second full teardown of the same connection
\* changes nothing and sends nothing
TeardownIdempotent == ev.kind \in {"error", "close"} => NoEffect(TeardownAgain)

\* C15: a second full teardown of the same connection, and a second
\* consecutive disconnect for the same id, change no state and send no
\* message.
C15_Idempotent ==
    /\ TeardownIdempotent
    /\ Handled("disconnect") => NoEffect(DisconnectAgain)

\* ---------------------------------------------------------------- C16
\* C16: a disconnect message never removes a session, and it leaves the
\* registered session it names in the registry, idle, with partnerId null
\* and out of the pool, whatever its prior status; a find-match by that
\* session is then handled without a new join: paired with a live waiter
\* when there is one, waiting otherwise.
C16_PartialTeardown ==
    Handled("disconnect") =>
        /\ Registered = WasRegistered
        /\ Subject \in WasRegistered =>
               /\ users[Subject].status = "idle"
               /\ users[Subject].partnerId = Null
               /\ Subject \notin Pool
               /\ Eligible(Subject)

\* a matched session disconnects while another session is waiting
C16_Witness ==
    /\ Handled("disconnect")
    /\ Subject \in WasRegistered
    /\ pre.users[Subject].status = "matched"
    /\ LiveWaiters(Subject) # {}

\* ---------------------------------------------------------------- C18
\* the inbound data the server answers with an error reply
ErrorCase ==
    \/ ev.kind = "invalid"
    \/ /\ ev.kind = "message"
       /\ \/ ev.message.type \notin
                 {"join", "find-match", "disconnect"} \cup RelayTypes
          \/ ev.message.type = "join" /\ Subject = Null
          \/ ev.message.type \in RelayTypes /\ ev.message.to = Null
          \/ ev.message.type = "find-match" /\ Subject \notin WasRegistered

\* C18: unparseable data, an unknown type, a join without userId, a relay
\* without target and a find-match for an unregistered id each produce
\* exactly one error, on the sending connection, and change nothing of the
\* registry, the waiting pool or the connections.
C18_ErrorNoChange ==
    ErrorCase =>
        /\ Len(sent) = 1
        /\ sent[1].ws = ev.ws
        /\ sent[1].data.type = "error"
        /\ RegistryUnchanged
        /\ socks = pre.socks

\* a find-match names an id that is not registered while another session
\* is waiting in the pool
C18_Witness ==
    /\ Handled("find-match")
    /\ Subject \notin WasRegistered \cup {Null}
    /\ PrePool # {}

\* ---------------------------------------------------------------- C19
\* a join that registered a session, or a close, error or sweep that
\* removed at least one
CountChanging ==
    \/ Handled("join") /\ Subject # Null
    \/ ev.kind \in {"close", "error", "sweep"} /\ Registered # WasRegistered

\* C19: after a successful join and after a full teardown, every session
\* registered at that moment on an open connection was sent a user-count
\* whose count is the registry size and whose waiting is the pool size as
\* they are after the registration or removal.
C19_UserCount ==
    CountChanging =>
        \A u \in Registered :
            IsOpen(socks, users[u].ws) =>
                \E i \in SentTo(users[u].ws, "user-count") :
                    /\ sent[i].data.count = Cardinality(Registered)
                    /\ sent[i].data.waiting = Cardinality(Pool)

\* a session that was waiting in the pool is torn down while two others
\* stay registered on open connections
C19_Witness ==
    /\ ev.kind \in {"close", "error", "sweep"}
    /\ \E x \in WasRegistered \ Registered : x \in PrePool
    /\ Cardinality({u \in Registered : IsOpen(socks, users[u].ws)}) >= 2

\* ---------------------------------------------------------------- C20
\* the id the connection of the event is registered under after the handler
Sender == socks[ev.ws].userId

\* the handler that just ran handled inbound activity of a session over its
\* own connection
Activity ==
    /\ ev.kind \in {"message", "pong"}
    /\ Sender \in Registered
    /\ users[Sender].ws = ev.ws

\* C20: every inbound activity of a session, a handled message or a pong,
\* sets its lastSeen to the current time.
C20_LastSeenRefreshed == Activity => users[Sender].lastSeen = now

\* ---------------------------------------------------------------- C21
\* C21: no two registered sessions hold the same connection, and the id a
\* session's connection is tagged with is that session's id.
C21_ExclusiveHandle ==
    /\ \A a, b \in Registered : a # b => users[a].ws # users[b].ws
    /\ \A u \in Registered : socks[users[u].ws].userId = u

\* ---------------------------------------------------------------- C22
\* the close or error event of a connection whose id is registered on
\* another connection
SupersededCloses ==
    /\ ev.kind \in {"close", "error"}
    /\ Closer \in WasRegistered
    /\ pre.users[Closer].ws # ev.ws

\* C22: the close or error event of a superseded connection neither
\* removes nor alters the session its id now has on the new connection.
C22_SuccessorSurvives ==
    SupersededCloses =>
        /\ Closer \in Registered
        /\ users[Closer] = pre.users[Closer]

\* ---------------------------------------------------------------- C23
\* C23: every registered session with status waiting has its id in the
\* waiting pool.
C23_WaitingIsPooled ==
    \A u \in Registered : users[u].status = "waiting" => u \in Pool

\* a waiting session has just left the pool and stays registered
C23_Witness ==
    \E x \in (PrePool \ Pool) \cap Registered :
        x \in WasRegistered /\ pre.users[x].status = "waiting"

\* ---------------------------------------------------------------- C24
\* the pool members a find-match could select: waiting, on an open connection
EligibleWaiters ==
    {u \in Pool \cap Registered :
        users[u].status = "waiting" /\ IsOpen(socks, users[u].ws)}

\* C24: the waiting pool never holds two ids whose sessions are waiting on
\* an open connection.
C24_AtMostOneWaiter == Cardinality(EligibleWaiters) <= 1

\* a find-match arrives while an eligible waiter is pooled, and is paired
C24_Witness ==
    /\ Handled("find-match")
    /\ Subject \in WasRegistered
    /\ Candidates # {}
    /\ users[Subject].status = "matched"

\* ---------------------------------------------------------------- C25
\* the partner the registry held for the session a disconnect names, when
\* the message arrived
OwnPartner == pre.users[Subject].partnerId

\* C25: a disconnect for a registered session X changes no session other
\* than X and the session X's own partnerId named, and sends
\* partner-disconnected to that session only, whatever partnerId the
\* message carries.
C25_DisconnectFrame ==
    (Handled("disconnect") /\ Subject \in WasRegistered) =>
        /\ \A u \in WasRegistered \ {Subject, OwnPartner} :
               u \in Registered /\ users[u] = pre.users[u]
        /\ \A i \in SentOfType("partner-disconnected") :
               OwnPartner \in WasRegistered /\ sent[i].ws = pre.users[OwnPartner].ws

====
